---- MODULE Spec2Model ----
(***************************************************************************)
(* Model of cors-server.py: a single-threaded HTTP server                  *)
(* (socketserver.TCPServer + CORSProxyHandler) that answers preflight      *)
(* requests, forwards GET /api/... to LocalStack, serves dashboard.html    *)
(* and falls back to SimpleHTTPRequestHandler for everything else.         *)
(*                                                                         *)
(* One action models the complete handling of one HTTP/1.x request, from   *)
(* the dispatch on the method to the last byte written to the client.      *)
(* `path` is the handler's self.path.  Strings that the program slices     *)
(* or rewrites (paths, file contents, bodies) are sequences of one-        *)
(* character strings; header names and values are whole strings.           *)
(***************************************************************************)
EXTENDS Integers, Sequences, FiniteSets, TLC

VARIABLES
    request,        \* the request being answered: [method, path]
    branch,         \* which handler body produced the answer
    wire,           \* what reached the client socket, in order
    started,        \* status codes passed to send_response, in order
    headers_buffer, \* BaseHTTPRequestHandler._headers_buffer left over
    urlopen_calls,  \* URLs passed to urllib.request.urlopen
    upstream,       \* how LocalStack behaved for this request
    dashboard_file, \* what open('dashboard.html') found
    files_opened,   \* files opened while handling the request
    raised,         \* exception class that escaped the handler, "" if none
    client_writes,  \* socket writes the client connection accepts
    serving         \* serve_forever is still accepting connections

vars == <<request, branch, wire, started, headers_buffer, urlopen_calls,
          upstream, dashboard_file, files_opened, raised, client_writes,
          serving>>

----------------------------------------------------------------------------
(* Bounds *)

MaxSuffixLen == 2
MaxBodyLen == 2
MaxFileLen == 2
MaxClientWrites == 2

----------------------------------------------------------------------------
(* Program constants *)

LOCALSTACK_URL == "http://localhost:4566"

APIPrefixNoSlash == <<"/", "a", "p", "i">>
APIPrefix == <<"/", "a", "p", "i", "/">>
RootPath == <<"/">>
DashboardPath == <<"/", "d", "a", "s", "h", "b", "o", "a", "r", "d">>
DashboardNotFound == <<"<h1>Dashboard not found</h1>">>

ACAO == "Access-Control-Allow-Origin"
ACAM == "Access-Control-Allow-Methods"
ACAH == "Access-Control-Allow-Headers"
ACAOValue == "*"
ACAMValue == "GET, POST, PUT, DELETE, OPTIONS"
ACAHValue == "Content-Type, Authorization"

----------------------------------------------------------------------------
(* Input domains *)

RECURSIVE SeqsUpTo(_, _)
SeqsUpTo(S, n) ==
    IF n = 0 THEN {<<>>}
    ELSE LET shorter == SeqsUpTo(S, n - 1)
         IN shorter \cup {Append(s, c) : s \in shorter, c \in S}

PathChars == {"/", "h", "?", "."}
PathStems == {<<>>, <<"/", "a", "p", "i">>, APIPrefix, RootPath,
              DashboardPath}
Paths == {p \o s : p \in PathStems, s \in SeqsUpTo(PathChars, MaxSuffixLen)}
            \ {<<>>}

BodyBytes == {"{", "}"}
Bodies == SeqsUpTo(BodyBytes, MaxBodyLen)

CR == "\r"
LF == "\n"
FileBytes == {"a", " ", CR, LF}
FileContents == SeqsUpTo(FileBytes, MaxFileLen)

OtherMethods == {"POST", "PUT", "DELETE"}

HTTPReason(code) ==
    CASE code = 400 -> "Bad Request"
      [] code = 404 -> "Not Found"
      [] code = 500 -> "Internal Server Error"
      [] OTHER -> "Service Unavailable"

UpstreamOutcomes ==
    {[kind |-> "response", status |-> st, reason |-> "OK", body |-> b] :
        st \in {200, 201, 204}, b \in Bodies}
    \cup {[kind |-> "HTTPError", status |-> st, reason |-> HTTPReason(st),
           body |-> <<>>] : st \in {400, 404, 500, 503}}
    \cup {[kind |-> "URLError", status |-> 0, reason |-> r, body |-> <<>>] :
            r \in {"[Errno 111] Connection refused",
                   "[Errno -2] Name or service not known",
                   "timed out"}}
    \cup {[kind |-> "TimeoutError", status |-> 0, reason |-> "timed out",
           body |-> <<>>],
          [kind |-> "IncompleteRead", status |-> 0,
           reason |-> "IncompleteRead(0 bytes read)", body |-> <<>>]}

DashboardFiles ==
    {[kind |-> "present", bytes |-> b] : b \in FileContents}
    \cup {[kind |-> "absent", bytes |-> <<>>],
          [kind |-> "unreadable", bytes |-> <<>>]}

StaticLookups ==
    {[kind |-> "file", bytes |-> b] : b \in Bodies}
    \cup {[kind |-> "missing", bytes |-> <<>>],
          [kind |-> "directory", bytes |-> <<>>]}

----------------------------------------------------------------------------
(* The response under construction: headers buffer, socket, exception *)

NoExc == [code |-> 0, reason |-> "", cls |-> ""]

StatusLine(code) == [code |-> code, k |-> "status", name |-> "", value |-> "",
                     data |-> <<>>]
HeaderLine(n, v) == [code |-> 0, k |-> "header", name |-> n, value |-> v,
                     data |-> <<>>]
BlankLine == [code |-> 0, k |-> "blank", name |-> "", value |-> "",
              data |-> <<>>]
BodyChunk(d) == [code |-> 0, k |-> "body", name |-> "", value |-> "",
                 data |-> d]

NewHandler(left) ==
    [wire |-> <<>>, started |-> <<>>, left |-> left, buf |-> <<>>,
     exc |-> NoExc]

send_header(rs, n, v) == [rs EXCEPT !.buf = Append(@, HeaderLine(n, v))]

send_response(rs, code) ==
    send_header(
        send_header([rs EXCEPT !.buf = Append(@, StatusLine(code)),
                               !.started = Append(@, code)],
                    "Server", "SimpleHTTP"),
        "Date", "now")

BrokenPipe == [code |-> 0, reason |-> "[Errno 32] Broken pipe",
               cls |-> "BrokenPipeError"]

flush_headers(rs) ==
    IF rs.left > 0
    THEN [rs EXCEPT !.wire = @ \o rs.buf, !.buf = <<>>, !.left = @ - 1]
    ELSE [rs EXCEPT !.exc = BrokenPipe]

base_end_headers(rs) ==
    flush_headers([rs EXCEPT !.buf = Append(@, BlankLine)])

end_headers_plain(rs) == base_end_headers(rs)

end_headers(rs) ==
    base_end_headers(
        send_header(
            send_header(
                send_header(rs, ACAO, ACAOValue),
                ACAM, ACAMValue),
            ACAH, ACAHValue))

wfile_write(rs, data) ==
    IF rs.left > 0
    THEN [rs EXCEPT !.wire = Append(@, BodyChunk(data)), !.left = @ - 1]
    ELSE [rs EXCEPT !.exc = BrokenPipe]

handle_OPTIONS(rs) ==
    end_headers(
        send_header(
            send_header(
                send_header(send_response(rs, 200), ACAO, ACAOValue),
                ACAM, ACAMValue),
            ACAH, ACAHValue))


(* str.startswith and the slice self.path[4:] *)
startswith(s, prefix) ==
    /\ Len(s) >= Len(prefix)
    /\ SubSeq(s, 1, Len(prefix)) = prefix

SliceFrom(s, n) == SubSeq(s, n + 1, Len(s))

Clear(rs) == [rs EXCEPT !.exc = NoExc]
Raise(rs, e) == [rs EXCEPT !.exc = e]

(* send_response, Content-Type, end_headers, wfile.write: the sequence     *)
(* every branch of the forwarder and the dashboard responder repeats.      *)
Reply(rs, code, ctype, data) ==
    LET r1 == end_headers(send_header(send_response(rs, code),
                                      "Content-Type", ctype))
    IN IF r1.exc.cls # "" THEN r1 ELSE wfile_write(r1, data)

(* Exception classes: HTTPError < URLError < OSError < Exception *)
Bases(cls) ==
    CASE cls = "HTTPError" -> {"HTTPError", "URLError", "OSError", "Exception"}
      [] cls = "URLError" -> {"URLError", "OSError", "Exception"}
      [] cls \in {"TimeoutError", "BrokenPipeError", "FileNotFoundError",
                  "PermissionError"} -> {cls, "OSError", "Exception"}
      [] OTHER -> {cls, "Exception"}

IsInstance(e, cls) == e.cls # "" /\ cls \in Bases(e.cls)



HTTPErrorBody(e) == <<"{\"error\": \"", "HTTP ", ToString(e.code), ": ",
                      e.reason, "\"}">>
URLErrorBody(e) == <<"{\"error\": \"", "LocalStack connection failed: ",
                     e.reason, "\"}">>
ProxyErrorBody(e) == <<"{\"error\": \"", "Proxy error: ", e.reason, "\"}">>

TargetURL_strip5(path) == <<LOCALSTACK_URL>> \o SliceFrom(path, 5)
TargetURL(path) == <<LOCALSTACK_URL>> \o SliceFrom(path, 4)

(* urlopen followed by response.read(): either the body of a 2xx answer   *)
(* or the exception the call raised.                                       *)
urlopen(rs, up) ==
    IF up.kind = "response" THEN rs
    ELSE Raise(rs, [code |-> up.status, reason |-> up.reason,
                    cls |-> up.kind])

proxy_try_propagate(rs, up) ==
    LET r1 == urlopen(rs, up)
    IN IF r1.exc.cls # "" THEN r1
       ELSE Reply(r1, up.status, "application/json", up.body)

proxy_try(rs, up) ==
    LET r1 == urlopen(rs, up)
    IN IF r1.exc.cls # "" THEN r1
       ELSE Reply(r1, 200, "application/json", up.body)

proxy_to_localstack_urlerror_first(rs, up) ==
    LET t == proxy_try(rs, up)
        e == t.exc
    IN IF e.cls = "" THEN t
       ELSE IF IsInstance(e, "URLError")
            THEN Reply(Clear(t), 503, "application/json", URLErrorBody(e))
       ELSE IF IsInstance(e, "HTTPError")
            THEN Reply(Clear(t), e.code, "application/json", HTTPErrorBody(e))
       ELSE Reply(Clear(t), 500, "application/json", ProxyErrorBody(e))

proxy_to_localstack(rs, up) ==
    LET t == proxy_try(rs, up)
        e == t.exc
    IN IF e.cls = "" THEN t
       ELSE IF IsInstance(e, "HTTPError")
            THEN Reply(Clear(t), e.code, "application/json", HTTPErrorBody(e))
       ELSE IF IsInstance(e, "URLError")
            THEN Reply(Clear(t), 503, "application/json", URLErrorBody(e))
       ELSE Reply(Clear(t), 500, "application/json", ProxyErrorBody(e))

(* open('dashboard.html', 'r').read(): text mode translates \r\n and a    *)
(* lone \r to \n.                                                          *)
RECURSIVE TextRead(_)
TextRead(bytes) ==
    IF bytes = <<>> THEN <<>>
    ELSE IF Head(bytes) = CR
         THEN IF Len(bytes) >= 2 /\ bytes[2] = LF
              THEN <<LF>> \o TextRead(SliceFrom(bytes, 2))
              ELSE <<LF>> \o TextRead(Tail(bytes))
         ELSE <<Head(bytes)>> \o TextRead(Tail(bytes))

(* str.encode(): UTF-8 of ASCII text is the same characters *)
Encode(text) == text

open_dashboard(rs, file) ==
    CASE file.kind = "present" -> rs
      [] file.kind = "absent" ->
            Raise(rs, [code |-> 2, reason |-> "No such file or directory",
                       cls |-> "FileNotFoundError"])
      [] OTHER ->
            Raise(rs, [code |-> 13, reason |-> "Permission denied",
                       cls |-> "PermissionError"])

dashboard_try(rs, file) ==
    LET r1 == open_dashboard(rs, file)
    IN IF r1.exc.cls # "" THEN r1
       ELSE Reply(r1, 200, "text/html", Encode(TextRead(file.bytes)))

serve_dashboard(rs, file) ==
    LET t == dashboard_try(rs, file)
    IN IF IsInstance(t.exc, "FileNotFoundError")
       THEN Reply(Clear(t), 404, "text/html", DashboardNotFound)
       ELSE t

(* BaseHTTPRequestHandler.send_error: the error page is left out for HEAD *)
ErrorPage(code) == <<"<error page ", ToString(code), ">">>

send_error(rs, code, method) ==
    LET r1 == end_headers(
                  send_header(
                      send_header(
                          send_header(send_response(rs, code),
                                      "Connection", "close"),
                          "Content-Type", "text/html;charset=utf-8"),
                      "Content-Length", "n"))
    IN IF r1.exc.cls # "" \/ method = "HEAD" THEN r1
       ELSE wfile_write(r1, ErrorPage(code))

(* SimpleHTTPRequestHandler.send_head followed, for GET, by copyfile *)
static_file(rs, found, method) ==
    CASE found.kind = "missing" -> send_error(rs, 404, method)
      [] found.kind = "directory" ->
            end_headers(
                send_header(
                    send_header(send_response(rs, 301), "Location", "dir/"),
                    "Content-Length", "0"))
      [] OTHER ->
            LET r1 == end_headers(
                          send_header(
                              send_header(
                                  send_header(send_response(rs, 200),
                                              "Content-type", "guessed"),
                                  "Content-Length", "n"),
                              "Last-Modified", "mtime"))
            IN IF r1.exc.cls # "" \/ method = "HEAD" THEN r1
               ELSE wfile_write(r1, found.bytes)

----------------------------------------------------------------------------
(* The server *)

NoRequest == [path |-> <<>>, method |-> ""]
NoUpstream == [kind |-> "none", status |-> 0, reason |-> "", body |-> <<>>]
NoFile == [kind |-> "none", bytes |-> <<>>]

Init ==
    /\ request = NoRequest
    /\ branch = "none"
    /\ wire = <<>>
    /\ started = <<>>
    /\ headers_buffer = <<>>
    /\ urlopen_calls = <<>>
    /\ upstream = NoUpstream
    /\ dashboard_file = NoFile
    /\ files_opened = {}
    /\ raised = ""
    /\ client_writes = MaxClientWrites
    /\ serving = TRUE

(* The server is blocked in accept: no request is being handled *)
Idle == serving /\ request = NoRequest

(* What one finished handler leaves behind *)
Finish(method, path, br, left, rs, calls, up, file, opened) ==
    /\ request' = [path |-> path, method |-> method]
    /\ branch' = br
    /\ wire' = rs.wire
    /\ started' = rs.started
    /\ headers_buffer' = rs.buf
    /\ urlopen_calls' = calls
    /\ upstream' = up
    /\ dashboard_file' = file
    /\ files_opened' = opened
    /\ raised' = rs.exc.cls
    /\ client_writes' = left
    /\ serving' = TRUE

do_OPTIONS_routed ==
    /\ Idle
    /\ \E path \in Paths, left \in 0..MaxClientWrites :
        IF startswith(path, APIPrefix)
        THEN \E up \in UpstreamOutcomes :
                Finish("OPTIONS", path, "proxy", left,
                       proxy_to_localstack(NewHandler(left), up),
                       <<TargetURL(path)>>, up, NoFile, {})
        ELSE Finish("OPTIONS", path, "preflight", left,
                    handle_OPTIONS(NewHandler(left)),
                    <<>>, NoUpstream, NoFile, {})

do_OPTIONS ==
    /\ Idle
    /\ \E path \in Paths, left \in 0..MaxClientWrites :
        Finish("OPTIONS", path, "preflight", left,
               handle_OPTIONS(NewHandler(left)),
               <<>>, NoUpstream, NoFile, {})

do_GET ==
    /\ Idle
    /\ \E path \in Paths, left \in 0..MaxClientWrites :
        IF startswith(path, APIPrefix)
        THEN \E up \in UpstreamOutcomes :
                Finish("GET", path, "proxy", left,
                       proxy_to_localstack(NewHandler(left), up),
                       <<TargetURL(path)>>, up, NoFile, {})
        ELSE IF path = RootPath \/ path = DashboardPath
        THEN \E file \in DashboardFiles :
                Finish("GET", path, "dashboard", left,
                       serve_dashboard(NewHandler(left), file),
                       <<>>, NoUpstream, file, {"dashboard.html"})
        ELSE \E found \in StaticLookups :
                Finish("GET", path, "static", left,
                       static_file(NewHandler(left), found, "GET"),
                       <<>>, NoUpstream, NoFile,
                       IF found.kind = "file" THEN {"static"} ELSE {})

(* SimpleHTTPRequestHandler.do_HEAD is inherited unchanged *)
do_HEAD ==
    /\ Idle
    /\ \E path \in Paths, left \in 0..MaxClientWrites,
          found \in StaticLookups :
        Finish("HEAD", path, "static", left,
               static_file(NewHandler(left), found, "HEAD"),
               <<>>, NoUpstream, NoFile,
               IF found.kind = "file" THEN {"static"} ELSE {})

(* No do_POST, do_PUT or do_DELETE exists: handle_one_request answers 501 *)
unsupported_method ==
    /\ Idle
    /\ \E method \in OtherMethods, path \in Paths,
          left \in 0..MaxClientWrites :
        Finish(method, path, "unsupported", left,
               send_error(NewHandler(left), 501, method),
               <<>>, NoUpstream, NoFile, {})

(* The accept loop: the handler object of the finished request is         *)
(* discarded, an exception that escaped it is reported by handle_error,    *)
(* and the server waits for the next connection.                           *)
serve_forever ==
    /\ serving
    /\ request # NoRequest
    /\ request' = NoRequest
    /\ branch' = "none"
    /\ wire' = <<>>
    /\ started' = <<>>
    /\ headers_buffer' = <<>>
    /\ urlopen_calls' = <<>>
    /\ upstream' = NoUpstream
    /\ dashboard_file' = NoFile
    /\ files_opened' = {}
    /\ raised' = ""
    /\ client_writes' = MaxClientWrites
    /\ serving' = TRUE

Next ==
    \/ do_OPTIONS
    \/ do_GET
    \/ do_HEAD
    \/ unsupported_method
    \/ serve_forever

Spec == Init /\ [][Next]_vars

----------------------------------------------------------------------------
(* Reading the client's side of the connection *)

CORSHeaders ==
    {<<"Access-Control-Allow-Origin", "*">>,
     <<"Access-Control-Allow-Methods", "GET, POST, PUT, DELETE, OPTIONS">>,
     <<"Access-Control-Allow-Headers", "Content-Type, Authorization">>}

ResponseStarts(w) == {i \in DOMAIN w : w[i].k = "status"}

HeaderBlock(w, i) ==
    {j \in DOMAIN w : j > i /\ \A m \in (i + 1)..j : w[m].k = "header"}

HasHeader(w, i, n, v) ==
    \E j \in HeaderBlock(w, i) : w[j].name = n /\ w[j].value = v

HeaderCount(w, i, n) ==
    Cardinality({j \in HeaderBlock(w, i) : w[j].name = n})

HasCORS(w, i) == \A h \in CORSHeaders : HasHeader(w, i, h[1], h[2])

IsStatus(l) == l.k = "status"
IsBody(l) == l.k = "body"

StatusCodes(w) ==
    LET lines == SelectSeq(w, IsStatus)
    IN [i \in 1..Len(lines) |-> lines[i].code]

RECURSIVE Concat(_)
Concat(chunks) ==
    IF chunks = <<>> THEN <<>>
    ELSE Head(chunks).data \o Concat(Tail(chunks))

BodyReceived(w) == Concat(SelectSeq(w, IsBody))

(* The client read the header block and the body without disconnecting *)
ClientStayed == client_writes >= 2

IsApiPath(p) ==
    /\ Len(p) >= 5
    /\ p[1] = "/" /\ p[2] = "a" /\ p[3] = "p" /\ p[4] = "i" /\ p[5] = "/"

IsDashboardPath(p) ==
    p \in {<<"/">>, <<"/", "d", "a", "s", "h", "b", "o", "a", "r", "d">>}

----------------------------------------------------------------------------
(* C1: every response that reaches the client, whatever the method, the   *)
(* path and the branch that produced it, carries the three CORS headers    *)
(* with their fixed values.                                                *)
C1_EveryResponseHasCORS ==
    \A i \in ResponseStarts(wire) : HasCORS(wire, i)

C1_Witness ==
    /\ request.method = "POST"
    /\ branch = "unsupported"
    /\ StatusCodes(wire) = <<501>>
    /\ HasCORS(wire, 1)

(* C2: in every response, the OPTIONS preflight response included, each   *)
(* of the three CORS headers appears exactly once.                         *)
C2_EachCORSHeaderOnce ==
    \A i \in ResponseStarts(wire) :
        \A h \in CORSHeaders : HeaderCount(wire, i, h[1]) = 1

(* C3: an OPTIONS request on any path is answered 200 with an empty body  *)
(* and the CORS headers, without calling the backend or opening a file.    *)
C3_PreflightAlways200 ==
    request.method = "OPTIONS" =>
        /\ urlopen_calls = <<>>
        /\ files_opened = {}
        /\ started = <<200>>
        /\ BodyReceived(wire) = <<>>
        /\ client_writes >= 1 =>
              /\ StatusCodes(wire) = <<200>>
              /\ HasCORS(wire, 1)
              /\ raised = ""

C3_Witness ==
    /\ request.method = "OPTIONS"
    /\ request.path = <<"/", "a", "p", "i", "/", "h">>
    /\ StatusCodes(wire) = <<200>>
    /\ HasCORS(wire, 1)
    /\ urlopen_calls = <<>>

(* C4: a GET is routed by its path alone: '/api/' prefix to the           *)
(* forwarder, exactly '/' or '/dashboard' to the dashboard responder,      *)
(* anything else to static serving; the backend is called if and only if   *)
(* the request is a GET whose path starts with '/api/'.                    *)
C4_GetRouting ==
    /\ request.method = "GET" =>
          branch = IF IsApiPath(request.path) THEN "proxy"
                   ELSE IF IsDashboardPath(request.path) THEN "dashboard"
                   ELSE "static"
    /\ urlopen_calls # <<>> <=>
          (request.method = "GET" /\ IsApiPath(request.path))

C4_Witness ==
    /\ request.method = "GET"
    /\ request.path = <<"/", "a", "p", "i">>
    /\ branch = "static"
    /\ urlopen_calls = <<>>

(* C5: the forwarder calls exactly one URL: the base URL followed by the  *)
(* request path without its first four characters, which begins with '/'   *)
(* and is otherwise unchanged (query string, '//' and '..' included).      *)
C5_TargetURLIsPathMinusApi ==
    branch = "proxy" =>
        /\ Len(urlopen_calls) = 1
        /\ Head(urlopen_calls[1]) = "http://localhost:4566"
        /\ <<"/", "a", "p", "i">> \o Tail(urlopen_calls[1]) = request.path
        /\ urlopen_calls[1][2] = "/"

C5_Witness ==
    /\ branch = "proxy"
    /\ request.path = <<"/", "a", "p", "i", "/", ".", ".">>
    /\ urlopen_calls = << <<"http://localhost:4566", "/", ".", ".">> >>

(* C6: when the backend answers any 2xx and the client stays connected,   *)
(* the client gets status 200, content type application/json, the CORS     *)
(* headers and exactly the backend's body.                                 *)
C6_SuccessIsAlways200 ==
    (branch = "proxy" /\ upstream.kind = "response" /\ ClientStayed) =>
        /\ StatusCodes(wire) = <<200>>
        /\ HasHeader(wire, 1, "Content-Type", "application/json")
        /\ HasCORS(wire, 1)
        /\ BodyReceived(wire) = upstream.body

C6_Witness ==
    /\ branch = "proxy"
    /\ upstream.kind = "response"
    /\ upstream.status = 201
    /\ upstream.body = <<"{", "}">>
    /\ StatusCodes(wire) = <<200>>
    /\ BodyReceived(wire) = <<"{", "}">>

(* C7: when the backend answers an HTTP error status S and the client     *)
(* stays connected, the client gets the same status S, content type        *)
(* application/json and the body {"error": "HTTP S: <reason>"}.            *)
C7_HTTPErrorStatusPropagated ==
    (branch = "proxy" /\ upstream.kind = "HTTPError" /\ ClientStayed) =>
        /\ StatusCodes(wire) = <<upstream.status>>
        /\ HasHeader(wire, 1, "Content-Type", "application/json")
        /\ HasCORS(wire, 1)
        /\ BodyReceived(wire) =
              <<"{\"error\": \"", "HTTP ", ToString(upstream.status), ": ",
                upstream.reason, "\"}">>

C7_Witness ==
    /\ branch = "proxy"
    /\ upstream.kind = "HTTPError"
    /\ upstream.status = 503
    /\ StatusCodes(wire) = <<503>>
    /\ BodyReceived(wire) =
          <<"{\"error\": \"", "HTTP ", "503", ": ", "Service Unavailable",
            "\"}">>

(* C8: when the backend cannot be reached, whatever the cause (refused,   *)
(* DNS, or a timeout, also one that expires while waiting for or reading   *)
(* the response), the client gets 503 and the body                         *)
(* {"error": "LocalStack connection failed: <reason>"}; 500 is kept for    *)
(* failures that are neither an HTTP error nor a connection failure.       *)
C8_UnreachableIsAlways503 ==
    (branch = "proxy" /\ ClientStayed) =>
        /\ upstream.kind \in {"URLError", "TimeoutError"} =>
              /\ StatusCodes(wire) = <<503>>
              /\ HasHeader(wire, 1, "Content-Type", "application/json")
              /\ BodyReceived(wire) =
                    <<"{\"error\": \"", "LocalStack connection failed: ",
                      upstream.reason, "\"}">>
        /\ (/\ StatusCodes(wire) = <<500>>
            /\ Len(BodyReceived(wire)) >= 2
            /\ BodyReceived(wire)[2] = "Proxy error: ") =>
              upstream.kind \notin {"HTTPError", "URLError", "TimeoutError"}

(* C9: GET / and GET /dashboard answer 200 text/html with exactly the     *)
(* bytes of dashboard.html when the file is present, and 404 text/html     *)
(* with '<h1>Dashboard not found</h1>' when it is absent.                  *)
C9_DashboardByteForByte ==
    (branch = "dashboard" /\ ClientStayed) =>
        /\ dashboard_file.kind = "present" =>
              /\ StatusCodes(wire) = <<200>>
              /\ HasHeader(wire, 1, "Content-Type", "text/html")
              /\ BodyReceived(wire) = dashboard_file.bytes
        /\ dashboard_file.kind = "absent" =>
              /\ StatusCodes(wire) = <<404>>
              /\ HasHeader(wire, 1, "Content-Type", "text/html")
              /\ BodyReceived(wire) = <<"<h1>Dashboard not found</h1>">>

(* C10: a request handled by the forwarder or the dashboard responder     *)
(* starts exactly one response, whatever the outcome: never none, never a  *)
(* second status line after the first; and the server keeps serving.       *)
C10_ExactlyOneResponse ==
    branch \in {"proxy", "dashboard"} =>
        /\ Len(started) = 1
        /\ serving

====
